---------------------------- MODULE Spec2Model ----------------------------
(***************************************************************************)
(* Time-Travel Photo Booth: the Session Controller (src/App.tsx), the Edit *)
(* Request Client (src/services/geminiService.ts), the Encoder             *)
(* (fileToBase64) and the result slot (src/components/ImageSlot.tsx).      *)
(*                                                                         *)
(* The program is single-threaded: every action below is one handler or    *)
(* one promise continuation run to completion, together with the React     *)
(* re-render and the effect cleanup/re-run that its state updates cause.   *)
(***************************************************************************)
EXTENDS Naturals, Sequences, FiniteSets, Bags, TLC

\* ------------------------------------------------------------- bounds
\* How many asynchronous operations (file reads, camera acquisitions, remote
\* edit calls) one run starts.
MaxOps == 4
\* How many entries of the scene catalog the user picks from.
MaxScenes == 2
\* Longest list of content parts in a remote response.
MaxParts == 4

\* ------------------------------------------------------- JS values
\* null / undefined, and a present value (records, so that TLC can compare
\* them with any other record).
Null == [null |-> TRUE]
None == [some |-> FALSE]
Some(v) == [some |-> TRUE, v |-> v]

\* A settled promise.
Resolved(v) == [ok |-> TRUE, value |-> v]
Rejected(e) == [ok |-> FALSE, err |-> e]

\* A thrown value: an Error instance with its message, or something else.
ErrorOf(name, message) == [isError |-> TRUE, name |-> name, message |-> message]
NonError == [isError |-> FALSE]

\* --------------------------------------------------- Edit Request Client
NoImageMessage == "No image data was found in the Gemini API response."
NoImageReturned == ErrorOf("Error", NoImageMessage)
\* What the JS engine throws on response.candidates[0].content.parts when a
\* link of the chain is undefined, and on for..of over undefined.
JsTypeError == ErrorOf("TypeError", "Cannot read properties of undefined")

ImageData == {"QQQQ", "RRRR"}
TextPart == [text |-> "Here is your image"]
ImagePart(d) == [inlineData |-> [data |-> d]]
Parts == {TextPart} \cup {ImagePart(d) : d \in ImageData}

\* if (part.inlineData)
HasInlineData(part) == "inlineData" \in DOMAIN part

PartLists == UNION {[1..n -> Parts] : n \in 0..MaxParts}

\* generateContent's response: candidates, candidates[0].content and
\* content.parts are each optional in the SDK's types.
Responses ==
    {[candidates |-> None], [candidates |-> Some(<<>>)],
     [candidates |-> Some(<<[content |-> None]>>)],
     [candidates |-> Some(<<[content |-> Some([parts |-> None])]>>)]}
    \cup {[candidates |-> Some(<<[content |-> Some([parts |-> Some(ps)])]>>)] :
            ps \in PartLists}

\* A transport or authorization failure of the remote call.
TransportErrors ==
    {ErrorOf("ApiError", "API key not valid"), ErrorOf("Error", ""), NonError}

\* How the awaited ai.models.generateContent(...) settles.
RemoteResults == {Resolved(r) : r \in Responses} \cup {Rejected(e) : e \in TransportErrors}

\* Faulty variant of the scan: the loop remembers the image instead of
\* returning it, so the last image-bearing part wins.
RECURSIVE ScanPartsLast(_)
ScanPartsLast(parts) ==
    IF parts = <<>> THEN Rejected(NoImageReturned)
    ELSE IF HasInlineData(parts[Len(parts)])
         THEN Resolved(parts[Len(parts)].inlineData.data)
    ELSE ScanPartsLast(SubSeq(parts, 1, Len(parts) - 1))

\* for (const part of parts) { if (part.inlineData) return part.inlineData.data; }
\* throw new Error("No image data ...")
RECURSIVE ScanParts(_)
ScanParts(parts) ==
    IF parts = <<>> THEN Rejected(NoImageReturned)
    ELSE IF HasInlineData(Head(parts)) THEN Resolved(Head(parts).inlineData.data)
    ELSE ScanParts(Tail(parts))

\* response.candidates[0].content.parts, as the engine evaluates it.
ResponseParts(response) ==
    IF ~response.candidates.some THEN None
    ELSE IF response.candidates.v = <<>> THEN None
    ELSE IF ~response.candidates.v[1].content.some THEN None
    ELSE response.candidates.v[1].content.v.parts

\* editImage once the remote call has settled with `remote`.
editImage(remote) ==
    IF ~remote.ok THEN remote
    ELSE LET parts == ResponseParts(remote.value)
         IN  IF ~parts.some THEN Rejected(JsTypeError) ELSE ScanParts(parts.v)

\* ---------------------------------------------------------------- Encoder
\* A file the user can choose: its bytes (base64 text), its type, and
\* whether the FileReader can read it.
Files ==
    {[data |-> "AAAA", type |-> "image/png", readable |-> TRUE],
     [data |-> "", type |-> "image/png", readable |-> TRUE],
     [data |-> "CCCC", type |-> "image/gif", readable |-> FALSE]}

\* A data URL "data:<type>;base64,<data>", kept as its comma-separated pieces
\* (neither a media type nor base64 text holds a comma).
DataUrl(type, data) == <<"data:" \o type \o ";base64", data>>
\* canvas.toDataURL of a canvas of no width or height.
EmptyCanvasUrl == <<"data:", "">>
\* url.split(',')[1]
Base64Of(url) == url[2]
\* The same URL as one string.
UrlText(url) == url[1] \o "," \o url[2]

ReadErrorValue == ErrorOf("Error", "Failed to read base64 data from file.")
fileToBase64(file) ==
    IF ~file.readable THEN Rejected(NonError)
    ELSE LET base64Data == Base64Of(DataUrl(file.type, file.data))
         IN  IF base64Data /= "" THEN Resolved(base64Data) ELSE Rejected(ReadErrorValue)

\* ------------------------------------------------------ Session Controller
HISTORICAL_SCENES == <<"rome", "dino", "paris", "moon", "viking", "future">>
Scenes == {HISTORICAL_SCENES[i] : i \in 1..MaxScenes}

ValidationMessage == "Please provide a photo and select a scene."
CameraMessage == "Could not access the camera. Please check permissions."
ReadMessage == "Could not read the selected file."
\* err instanceof Error ? `An error occurred: ${err.message}` : 'An unknown error occurred.'
GenerateErrorMessage(err) ==
    IF err.isError THEN "An error occurred: " \o err.message
    ELSE "An unknown error occurred."

\* The frame a live video element shows.
Frame == "FFFF"
UserImageOf(base64, url, mimeType) == [base64 |-> base64, url |-> url, mimeType |-> mimeType]

VARIABLES
    userImage,       \* useState<UserImage | null>
    selectedScene,   \* useState<Scene | null>
    generatedImage,  \* useState<UserImage | null>
    isLoading,       \* useState<boolean>
    error,           \* useState<string | null>
    isCameraOn,      \* useState<boolean>
    mounted,         \* the App component is mounted
    cameras,         \* bag of the camera effect's runs that still hold something:
                     \* the closure's `stream` ("pending": getUserMedia not yet
                     \* settled, "live": a stream with running tracks) and whether
                     \* the run's cleanup has already been called
    srcObject,       \* whether videoRef.current.srcObject holds a stream
    reads,           \* bag of the files whose fileToBase64 promise is not settled
    calls,           \* bag of the editImage promises not yet settled, each with what
                     \* handleGenerate's closure holds (userImage, selectedScene)
    nOps,            \* asynchronous operations started so far
    resultOf,        \* history: the call whose response generatedImage holds
    remoteResult,    \* Edit Request Client on its own: how the remote call settled,
    outcome,         \* how editImage settled,
    editPc           \* and where it is

sessionVars == <<userImage, selectedScene, generatedImage, isLoading, error, isCameraOn,
                 mounted, cameras, srcObject, reads, calls, nOps, resultOf>>
editVars == <<remoteResult, outcome, editPc>>
vars == <<sessionVars, editVars>>
cameraVars == <<isCameraOn, cameras, srcObject>>

ErrorText(s) == [text |-> s]
\* JS truthiness of the state's values, as the render code tests them.
Truthy(v) == v /= Null /\ (("text" \in DOMAIN v) => v.text /= "")

InitSession ==
    /\ userImage = Null
    /\ selectedScene = Null
    /\ generatedImage = Null
    /\ isLoading = FALSE
    /\ error = Null
    /\ isCameraOn = FALSE
    /\ mounted = TRUE
    /\ cameras = EmptyBag
    /\ srcObject = FALSE
    /\ reads = EmptyBag
    /\ calls = EmptyBag
    /\ nOps = 0
    /\ resultOf = Null

Init ==
    /\ InitSession
    /\ remoteResult = Null
    /\ outcome = Null
    /\ editPc = "idle"

\* ------------------------------------------------------------ camera effect
\* return () => { if (stream) stream.getTracks().forEach(track => track.stop()); }
\* A stopped stream holds nothing more and leaves the bag; a run whose
\* getUserMedia is still pending stays, with its cleanup already spent.
Cleanup(cams) ==
    IF \E cam \in BagToSet(cams) : ~cam.cleaned
    THEN LET cam == CHOOSE c \in BagToSet(cams) : ~c.cleaned
         IN  IF cam.stream = "live" THEN cams (-) SetToBag({cam})
             ELSE (cams (-) SetToBag({cam})) (+) SetToBag({[cam EXCEPT !.cleaned = TRUE]})
    ELSE cams

\* setIsCameraOn(false) and the re-render it causes: the cleanup of the effect
\* that ran with isCameraOn, and the <video> element leaving the page.
TurnCameraOff ==
    /\ isCameraOn' = FALSE
    /\ cameras' = Cleanup(cameras)
    /\ srcObject' = FALSE

\* setIsCameraOn(true) and the effect run it causes: getUserMedia is called.
TurnCameraOn ==
    /\ isCameraOn' = TRUE
    /\ IF isCameraOn THEN UNCHANGED <<cameras, nOps>>
       ELSE /\ nOps < MaxOps
            /\ nOps' = nOps + 1
            /\ cameras' = cameras (+) SetToBag({[stream |-> "pending", cleaned |-> FALSE]})
    /\ UNCHANGED srcObject

\* .then(mediaStream => { stream = mediaStream; if (videoRef.current) ... })
GetUserMediaResolves ==
    \E cam \in BagToSet(cameras) :
        /\ cam.stream = "pending"
        /\ cameras' = (cameras (-) SetToBag({cam})) (+) SetToBag({[cam EXCEPT !.stream = "live"]})
        /\ srcObject' = IF mounted /\ isCameraOn THEN TRUE ELSE srcObject
        /\ UNCHANGED <<userImage, selectedScene, generatedImage, isLoading, error,
                       isCameraOn, mounted, reads, calls, nOps, resultOf>>
        /\ UNCHANGED editVars

\* .catch(err => { setError(...); setIsCameraOn(false); })
GetUserMediaRejects ==
    \E cam \in BagToSet(cameras) :
        /\ cam.stream = "pending"
        /\ IF mounted
           THEN /\ error' = ErrorText(CameraMessage)
                /\ isCameraOn' = FALSE
                /\ cameras' = Cleanup(cameras (-) SetToBag({cam}))
                /\ srcObject' = FALSE
           ELSE /\ cameras' = cameras (-) SetToBag({cam})
                /\ UNCHANGED <<error, isCameraOn, srcObject>>
        /\ UNCHANGED <<userImage, selectedScene, generatedImage, isLoading,
                       mounted, reads, calls, nOps, resultOf>>
        /\ UNCHANGED editVars

\* The component is torn down: React runs the cleanup of the current effect.
Unmount ==
    /\ mounted
    /\ mounted' = FALSE
    /\ cameras' = Cleanup(cameras)
    /\ srcObject' = FALSE
    /\ UNCHANGED <<userImage, selectedScene, generatedImage, isLoading, error, isCameraOn,
                   reads, calls, nOps, resultOf>>
    /\ UNCHANGED editVars

\* ----------------------------------------------------------------- handlers
\* onClick={() => setIsCameraOn(true)}
UseCamera ==
    /\ TurnCameraOn
    /\ UNCHANGED <<userImage, selectedScene, generatedImage, isLoading, error, mounted,
                   reads, calls, resultOf>>
    /\ UNCHANGED editVars

\* onClick={() => setIsCameraOn(false)}
CancelCamera ==
    /\ TurnCameraOff
    /\ UNCHANGED <<userImage, selectedScene, generatedImage, isLoading, error, mounted,
                   reads, calls, nOps, resultOf>>
    /\ UNCHANGED editVars

\* handleCapture. videoRef.current and canvasRef.current are set exactly while
\* the camera panel is rendered; `hasContext` is canvas.getContext('2d') != null;
\* the video has a frame only once a stream is attached and playing.
handleCapture(hasContext, playing) ==
    IF isCameraOn /\ hasContext
    THEN LET dataUrl == IF srcObject /\ playing THEN DataUrl("image/jpeg", Frame)
                        ELSE EmptyCanvasUrl
         IN  /\ userImage' = UserImageOf(Base64Of(dataUrl), UrlText(dataUrl), "image/jpeg")
             /\ TurnCameraOff
             /\ error' = Null
             /\ UNCHANGED <<selectedScene, generatedImage, isLoading, mounted,
                            reads, calls, nOps, resultOf>>
    ELSE UNCHANGED sessionVars

Capture ==
    /\ \E hasContext \in BOOLEAN, playing \in BOOLEAN : handleCapture(hasContext, playing)
    /\ UNCHANGED editVars

\* handleFileChange up to its await: `chosen` is event.target.files?.[0].
handleFileChange(chosen) ==
    IF chosen.some
    THEN /\ nOps < MaxOps
         /\ nOps' = nOps + 1
         /\ reads' = reads (+) SetToBag({chosen.v})
         /\ UNCHANGED <<userImage, selectedScene, generatedImage, isLoading, error,
                        mounted, calls, resultOf>>
         /\ UNCHANGED cameraVars
    ELSE UNCHANGED sessionVars

ChooseFile ==
    /\ \E chosen \in {None} \cup {Some(f) : f \in Files} : handleFileChange(chosen)
    /\ UNCHANGED editVars

\* handleFileChange after its await: fileToBase64 has settled.
FileReadSettles ==
    \E file \in BagToSet(reads) :
        /\ reads' = reads (-) SetToBag({file})
        /\ LET read == fileToBase64(file)
           IN  IF ~mounted THEN UNCHANGED <<userImage, error>>
               ELSE IF read.ok
               THEN /\ userImage' = UserImageOf(read.value, "blob:" \o file.data, file.type)
                    /\ error' = Null
               ELSE /\ error' = ErrorText(ReadMessage)
                    /\ UNCHANGED userImage
        /\ UNCHANGED <<selectedScene, generatedImage, isLoading, mounted,
                       calls, nOps, resultOf>>
        /\ UNCHANGED cameraVars
        /\ UNCHANGED editVars

\* onClick={() => setSelectedScene(scene)}
SelectScene ==
    /\ \E scene \in Scenes : selectedScene' = [id |-> scene]
    /\ UNCHANGED <<userImage, generatedImage, isLoading, error, mounted,
                   reads, calls, nOps, resultOf>>
    /\ UNCHANGED cameraVars
    /\ UNCHANGED editVars

\* if (!userImage || !selectedScene) { setError(...); return; }
GenerateRejected ==
    /\ error' = ErrorText(ValidationMessage)
    /\ UNCHANGED <<userImage, selectedScene, generatedImage, isLoading, mounted,
                   reads, calls, nOps, resultOf>>

\* setIsLoading(true); setError(null); setGeneratedImage(null); ... editImage(...)
GenerateIssued ==
    /\ nOps < MaxOps
    /\ isLoading' = TRUE
    /\ error' = Null
    /\ generatedImage' = Null
    /\ resultOf' = Null
    /\ nOps' = nOps + 1
    /\ calls' = calls (+) SetToBag({[image |-> userImage, scene |-> selectedScene]})
    /\ UNCHANGED <<userImage, selectedScene, mounted, reads>>

\* Faulty variant of the validation: && written for ||, so one missing input
\* passes.
handleGenerateBothMissing ==
    /\ IF userImage = Null /\ selectedScene = Null THEN GenerateRejected ELSE GenerateIssued
    /\ UNCHANGED cameraVars
    /\ UNCHANGED editVars

\* handleGenerate up to its await.
handleGenerate ==
    /\ IF userImage = Null \/ selectedScene = Null THEN GenerateRejected ELSE GenerateIssued
    /\ UNCHANGED cameraVars
    /\ UNCHANGED editVars

\* Faulty variant of the success path: no finally block, so the loading flag
\* stays set.
ApplyEditedNoFinally(call, base64) ==
    /\ generatedImage' =
           UserImageOf(base64, UrlText(DataUrl(call.image.mimeType, base64)), call.image.mimeType)
    /\ resultOf' = call
    /\ UNCHANGED <<isLoading, error>>

\* setGeneratedImage({ base64, mimeType: userImage.mimeType, url }) ... finally
ApplyEdited(call, base64) ==
    /\ generatedImage' =
           UserImageOf(base64, UrlText(DataUrl(call.image.mimeType, base64)), call.image.mimeType)
    /\ resultOf' = call
    /\ isLoading' = FALSE
    /\ UNCHANGED error

\* catch (err) { setError(...) } finally { setIsLoading(false) }
ApplyFailed(err) ==
    /\ error' = ErrorText(GenerateErrorMessage(err))
    /\ isLoading' = FALSE
    /\ UNCHANGED <<generatedImage, resultOf>>

\* Every way editImage can settle.
EditOutcomes == {editImage(settled) : settled \in RemoteResults}

\* handleGenerate after its await: editImage has settled for `call` as `edited`.
EditImageSettlesWith(call, edited) ==
    /\ calls' = calls (-) SetToBag({call})
    /\ IF ~mounted THEN UNCHANGED <<generatedImage, resultOf, isLoading, error>>
       ELSE IF edited.ok THEN ApplyEdited(call, edited.value)
       ELSE ApplyFailed(edited.err)
    /\ UNCHANGED <<userImage, selectedScene, mounted, reads, nOps>>
    /\ UNCHANGED cameraVars
    /\ UNCHANGED editVars

EditImageSettles ==
    \E call \in BagToSet(calls), edited \in EditOutcomes : EditImageSettlesWith(call, edited)

\* reset
reset ==
    /\ userImage' = Null
    /\ selectedScene' = Null
    /\ generatedImage' = Null
    /\ resultOf' = Null
    /\ error' = Null
    /\ isLoading' = FALSE
    /\ TurnCameraOff
    /\ UNCHANGED <<mounted, reads, calls, nOps>>
    /\ UNCHANGED editVars

\* ------------------------------------------------------------------- render
\* renderLeftPanel: the camera panel (Capture, Cancel), else the photo slot
\* (its clear button is reset), else the input panel (Use Camera, Upload).
CameraPanelShown == isCameraOn
\* ImageSlot: {onClear && imageUrl && <button onClick={onClear}>}
PhotoSlotShown == ~isCameraOn /\ userImage /= Null /\ userImage.url /= ""
InputPanelShown == ~isCameraOn /\ userImage = Null
\* renderRightPanel: the scene grid and the generate button take the place of
\* the result slot while there is no result, no load and no error.
ScenePickerShown ==
    /\ userImage /= Null
    /\ ~(Truthy(generatedImage) \/ isLoading \/ Truthy(error))
\* disabled={isLoading || !selectedScene}
GenerateEnabled == ScenePickerShown /\ ~(isLoading \/ selectedScene = Null)

\* ----------------------------------------------- the application as rendered
ClickUseCamera == mounted /\ InputPanelShown /\ UseCamera
ClickCancel == mounted /\ CameraPanelShown /\ CancelCamera
ClickCapture == mounted /\ CameraPanelShown /\ Capture
PickFile == mounted /\ InputPanelShown /\ ChooseFile
ClickScene == mounted /\ ScenePickerShown /\ SelectScene
ClickGenerate == mounted /\ GenerateEnabled /\ handleGenerate
ClickClear == mounted /\ PhotoSlotShown /\ reset

Next ==
    \/ ClickUseCamera
    \/ ClickCancel
    \/ ClickCapture
    \/ PickFile
    \/ FileReadSettles
    \/ ClickScene
    \/ ClickGenerate
    \/ EditImageSettles
    \/ ClickClear
    \/ GetUserMediaResolves
    \/ GetUserMediaRejects
    \/ Unmount

Spec == Init /\ [][Next]_vars

\* ------------------------------- the handlers called in any state and order
\* The Session Controller's handlers as its contract states them, without the
\* render conditions that decide which buttons the page offers.
CallUseCamera == mounted /\ UseCamera
CallCancel == mounted /\ CancelCamera
CallCapture == mounted /\ Capture
CallFileChange == mounted /\ ChooseFile
CallSelectScene == mounted /\ SelectScene
CallGenerate == mounted /\ handleGenerate
CallReset == mounted /\ reset

NextHandlers ==
    \/ CallUseCamera
    \/ CallCancel
    \/ CallCapture
    \/ CallFileChange
    \/ FileReadSettles
    \/ CallSelectScene
    \/ CallGenerate
    \/ EditImageSettles
    \/ CallReset
    \/ GetUserMediaResolves
    \/ GetUserMediaRejects
    \/ Unmount

SpecHandlers == Init /\ [][NextHandlers]_vars

\* ------------------------------------------- the Edit Request Client alone
InitEdit ==
    /\ InitSession
    /\ remoteResult \in RemoteResults
    /\ outcome = Null
    /\ editPc = "awaiting"

\* The awaited generateContent settles and editImage runs to its return or throw.
EditImageReturns ==
    /\ editPc = "awaiting"
    /\ outcome' = editImage(remoteResult)
    /\ editPc' = "settled"
    /\ UNCHANGED remoteResult
    /\ UNCHANGED sessionVars

NextEdit == EditImageReturns

SpecEdit == InitEdit /\ [][NextEdit]_vars

\* =================================================================== claims
NoLiveStream == \A cam \in BagToSet(cameras) : cam.stream /= "live"
Outstanding == BagCardinality(calls)

\* C1: in every reachable state, a result that is present was written by a
\* call issued for the photo and the scene the session holds now; a response
\* to a call issued before a reset or before a new photo is never written.
C1_ResultFromCurrentCall ==
    generatedImage /= Null =>
        /\ resultOf /= Null
        /\ resultOf.image = userImage
        /\ resultOf.scene = selectedScene

\* C2: at most one editImage call is outstanding at any time, and each
\* accepted generate action issues exactly one call.
C2_AtMostOneOutstanding ==
    [][/\ Outstanding' <= 1
       /\ (ClickGenerate => Outstanding' = Outstanding + 1)]_vars

\* C3: the reset action, from any reachable state, leaves currentPhoto,
\* selectedScene, result and lastError absent, pending and cameraActive false,
\* and no camera stream live.
C3_ResetClearsEverything ==
    [][ClickClear =>
         (/\ userImage = Null
          /\ selectedScene = Null
          /\ generatedImage = Null
          /\ error = Null
          /\ ~isLoading
          /\ ~isCameraOn
          /\ NoLiveStream)']_vars

\* C4: a generate action taken while the photo or the scene is absent issues
\* no remote call, sets lastError to the validation message, does not write
\* result and does not set pending.
C4_GenerateRejectedWithoutInputs ==
    [][(CallGenerate /\ (userImage = Null \/ selectedScene = Null)) =>
         /\ calls' = calls
         /\ error' = ErrorText(ValidationMessage)
         /\ generatedImage' = generatedImage
         /\ isLoading' = isLoading]_vars

\* C4's case: the validation message is shown, an input is missing, and no
\* call is outstanding.
C4_Witness ==
    /\ error = ErrorText(ValidationMessage)
    /\ userImage /= Null
    /\ selectedScene = Null
    /\ calls = EmptyBag
    /\ ~isLoading

\* C5: when the remote call of a generate action fails, the session ends with
\* lastError a non-empty message, pending false and result unset.
C5_FailureEndsInResultError ==
    [][\A call \in BagToSet(calls), edited \in EditOutcomes :
         (mounted /\ ~edited.ok /\ EditImageSettlesWith(call, edited)) =>
            (/\ error /= Null
             /\ Len(error.text) > 0
             /\ ~isLoading
             /\ generatedImage = Null)']_vars

\* C6: a generate action taken with both photo and scene present sets pending
\* and clears lastError and result; when its call then succeeds with image Q,
\* result holds Q and pending is false.
C6_GenerateThenSuccess ==
    [][/\ (CallGenerate /\ userImage /= Null /\ selectedScene /= Null) =>
            (isLoading /\ error = Null /\ generatedImage = Null)'
       /\ \A call \in BagToSet(calls), edited \in EditOutcomes :
            (mounted /\ edited.ok /\ EditImageSettlesWith(call, edited)) =>
               (/\ generatedImage /= Null
                /\ generatedImage.base64 = edited.value
                /\ ~isLoading)']_vars

\* C6's case: a call issued for the session's photo and scene has succeeded,
\* and its image is the result.
C6_Witness ==
    /\ generatedImage /= Null
    /\ generatedImage.base64 \in ImageData
    /\ resultOf = [image |-> userImage, scene |-> selectedScene]
    /\ ~isLoading
    /\ error = Null

\* C7: once cameraActive is false, or the component is torn down, no acquired
\* camera stream stays live.
C7_NoStreamLiveWhenCameraOff == (~isCameraOn \/ ~mounted) => NoLiveStream

\* The content parts of a response that has them.
PartsOf(settled) ==
    IF settled.ok /\ ResponseParts(settled.value).some
    THEN ResponseParts(settled.value).v ELSE <<>>
IsFirstImageAt(parts, i) ==
    /\ HasInlineData(parts[i])
    /\ \A j \in 1..(i - 1) : ~HasInlineData(parts[j])

\* C8: for every response whose parts hold an image-bearing part, editImage
\* returns the data of the first such part in order.
C8_ReturnsFirstImagePart ==
    (editPc = "settled" /\ remoteResult.ok) =>
        \A i \in DOMAIN PartsOf(remoteResult) :
            IsFirstImageAt(PartsOf(remoteResult), i) =>
                outcome = Resolved(PartsOf(remoteResult)[i].inlineData.data)

\* C8's case: editImage has returned for a response whose first image part
\* comes after a text part and before a part with another image.
C8_Witness ==
    /\ editPc = "settled"
    /\ remoteResult.ok
    /\ Len(PartsOf(remoteResult)) = 3
    /\ PartsOf(remoteResult)[1] = TextPart
    /\ PartsOf(remoteResult)[2] = ImagePart("RRRR")
    /\ PartsOf(remoteResult)[3] = ImagePart("QQQQ")
    /\ outcome = Resolved("RRRR")

\* C9: for every response with no image-bearing part (an empty part list and
\* a response with no candidate content included) editImage fails with
\* NoImageReturned; a failure of the remote call is propagated unmodified.
C9_NoImageReturnedOrPropagated ==
    editPc = "settled" =>
        /\ ~remoteResult.ok => outcome = remoteResult
        /\ (/\ remoteResult.ok
            /\ \A i \in DOMAIN PartsOf(remoteResult) :
                  ~HasInlineData(PartsOf(remoteResult)[i]))
           => outcome = Rejected(NoImageReturned)

\* C10: result and lastError are never both present.
C10_ResultAndErrorExclusive == ~(generatedImage /= Null /\ error /= Null)
=============================================================================
